---- MODULE Spec2Model ----
(***************************************************************************)
(* Scheduling-group specific data of seastar                               *)
(* (include/seastar/core/scheduling_specific.hh): the per-shard table of   *)
(* per-scheduling-group value handles, the typed accessors over it and the *)
(* map/reduce over the initialized groups of a shard.                      *)
(*                                                                         *)
(* The header holds the table, the accessors and the two aggregation entry *)
(* points.  Key registration, group creation and destruction and the       *)
(* generic map_reduce primitive live elsewhere in the repository; they are *)
(* modelled from the written specification.                                *)
(***************************************************************************)
EXTENDS Integers, Sequences, FiniteSets, TLC

\* Number of scheduling-group slots of a shard's table, max_scheduling_groups().
MaxSchedulingGroups == 3

\* Cap on the number of key registrations explored.
MaxKeys == 2

VARIABLES
    smp,      \* number of shards (threads), each with its own thread_local table
    data,     \* data[c]: scheduling_group_specific_thread_local_data of shard c
    issued,   \* key ids returned by the registrations so far, in order
    res,      \* the accessor or aggregation call that has not returned yet, and its outcome
    agg,      \* the most recent (or in-flight) aggregation of a shard
    reads,    \* the slots whose value handles the last step read
    SEASTAR_DEBUG,  \* whether the build defines SEASTAR_DEBUG
    typeid_T  \* the type parameter T of the call that has not returned yet

vars == <<smp, data, issued, res, agg, reads, SEASTAR_DEBUG, typeid_T>>

Cores == 0 .. (smp - 1)

\* Valid scheduling-group indexes of a table.
SchedulingGroups == 0 .. (MaxSchedulingGroups - 1)

\* scheduling_group values a caller can pass: the valid ones and one whose
\* index lies outside the table.
SchedulingGroupArgs == 0 .. MaxSchedulingGroups

(***************************************************************************)
(* Pointers.  A value handle is the address of one constructed value; the  *)
(* address tells the shard and group it was allocated for and the key      *)
(* whose constructor built the value it points to.                         *)
(***************************************************************************)
NullPtr == [core |-> -1, sg |-> -1, ctor |-> -1]

\* An address that is no handle of the table (what a read past the end of a
\* vector may yield).
WildPtr == [core |-> -2, sg |-> -2, ctor |-> -2]

\* The value built for shard c, group g by the constructor of config cfg.
Alloc(c, g, cfg) == [core |-> c, sg |-> g, ctor |-> cfg.constructor]

\* struct per_scheduling_group, default constructed.
per_scheduling_group == [queue_is_initialized |-> FALSE, specific_vals |-> << >>]

\* A table whose key-config vector starts with an entry nobody registered.
table_with_a_config ==
    [per_scheduling_group_data |-> [g \in SchedulingGroups |-> per_scheduling_group],
     scheduling_group_key_configs |-> <<[constructor |-> -1, type_index |-> -1]>>]

\* struct scheduling_group_specific_thread_local_data, default constructed.
scheduling_group_specific_thread_local_data ==
    [per_scheduling_group_data |-> [g \in SchedulingGroups |-> per_scheduling_group],
     scheduling_group_key_configs |-> << >>]

\* One table shared by every shard (the pointer not thread_local).
shared_scheduling_group_specific_data(c) == data[0]

\* The table of the calling shard (the thread_local pointer, dereferenced).
get_scheduling_group_specific_thread_local_data(c) == data[c]

\* internal::scheduling_group_index(sg): the group's index.
scheduling_group_index(sg) == sg

\* internal::scheduling_group_key_id(key): the key's id.
scheduling_group_key_id(key) == key.id

\* Keys that registration has handed out.
Keys == {[id |-> issued[i]] : i \in 1 .. Len(issued)}

\* Slot g of shard c.
Slot(c, g) == data[c].per_scheduling_group_data[g]

\* Keys callers may use: a key is used for typed access once every initialized
\* slot has caught up with its registration and holds a handle for it.
UsableKeys ==
    {key \in Keys :
        \A c \in Cores, g \in SchedulingGroups :
            Slot(c, g).queue_is_initialized => key.id < Len(Slot(c, g).specific_vals)}

\* The record left in res by an operation.
Result(op, c, sg, key, out, ptr, ub) ==
    [op |-> op, core |-> c, sg |-> sg, key |-> key, out |-> out, ptr |-> ptr, ub |-> ub]

NoKey == [id |-> -1]

\* No call is outstanding: no type parameter.
NoType == -1

\* The value types callers name: the type registered with each key.
Types == 0 .. (MaxKeys - 1)

NoResult == Result("none", -1, -1, NoKey, "none", NullPtr, FALSE)

\* A value handed around by an aggregation: what it is and the specific
\* value (by address) it was made from.
Val(kind, ptr) == [kind |-> kind, of |-> ptr]

NoVal == Val("none", NullPtr)

\* What a future that holds no value delivers.
NoValue == <<NoVal>>

\* No aggregation has been started, or the last one has been consumed.
IdleAgg ==
    [op |-> "idle", core |-> -1, key |-> NoKey, initial |-> << >>,
     behaviour |-> [g \in SchedulingGroups |-> "ok"],
     status |-> "idle", i |-> 0, acc |-> << >>, value |-> NoValue,
     error |-> NoVal, mapped |-> << >>, folded |-> << >>,
     pending |-> {}, waiting |-> -1, waitval |-> NoVal, ub |-> FALSE]

Init ==
    /\ smp = 1
    /\ data = [c \in Cores |-> scheduling_group_specific_thread_local_data]
    /\ issued = << >>
    /\ res = NoResult
    /\ agg = IdleAgg
    /\ reads = {}
    /\ SEASTAR_DEBUG = FALSE
    /\ typeid_T = NoType

\* A fault or the fatal "no such scheduling group" ends the process.
Alive == res.out \notin {"segfault", "no_such_scheduling_group", "assert"}
         /\ agg.status # "segfault"

\* The accessor and aggregation calls.
CallOps == {"get_specific_ptr", "get_specific", "get_specific_current",
            "map_reduce", "reduce"}

\* The shard runs one task at a time: the next operation starts once the
\* previous call has returned to its caller.
Ready == Alive /\ res.op \notin CallOps

\* An aggregation that is suspended stays in flight across other operations;
\* a completed one is consumed by the next operation.
InFlight == IF agg.status = "suspended" THEN agg ELSE IdleAgg

(***************************************************************************)
(* Key registry and slot lifecycle (lifecycle manager).                    *)
(***************************************************************************)

\* The KeyConfig a registration appends: its constructor is told apart from
\* every other registration's by the sentinel it writes, and each key is
\* registered with a value type of its own.
scheduling_group_key_config(id) == [constructor |-> id, type_index |-> id]

\* The id a registration returns: the index of the entry it appends.
next_key_id(configs) == Len(configs)

\* register_key: appends one KeyConfig on every shard and returns the key
\* whose id is the new entry's index.
RegisterKey ==
    /\ Ready
    /\ Len(issued) < MaxKeys
    /\ LET id == next_key_id(data[0].scheduling_group_key_configs) IN
        /\ data' = [c \in Cores |->
                [data[c] EXCEPT !.scheduling_group_key_configs =
                    Append(@, scheduling_group_key_config(id))]]
        /\ issued' = Append(issued, id)
        /\ res' = NoResult
    /\ agg' = InFlight
    /\ reads' = {}
    /\ typeid_T' = NoType
    /\ UNCHANGED <<smp, SEASTAR_DEBUG>>

\* The values slot initialization builds: one per registered key, each by
\* that key's constructor.
construct_specific_vals(c, g, configs) ==
    [i \in 1 .. Len(configs) |-> Alloc(c, g, configs[i])]

\* Slot initialization of group g on shard c (the group is created there).
InitSchedulingGroup(c, g) ==
    /\ Ready
    /\ ~data[c].per_scheduling_group_data[g].queue_is_initialized
    /\ data' = [data EXCEPT ![c].per_scheduling_group_data[g] =
            [queue_is_initialized |-> TRUE,
             specific_vals |->
                construct_specific_vals(c, g, data[c].scheduling_group_key_configs)]]
    /\ res' = NoResult
    /\ agg' = InFlight
    /\ reads' = {}
    /\ typeid_T' = NoType
    /\ UNCHANGED <<smp, issued, SEASTAR_DEBUG>>

\* Slot teardown of group g on shard c: every value is destroyed and the
\* flag cleared.
DestroySchedulingGroup(c, g) ==
    /\ Ready
    /\ data[c].per_scheduling_group_data[g].queue_is_initialized
    /\ data' = [data EXCEPT ![c].per_scheduling_group_data[g] =
            [queue_is_initialized |-> FALSE,
             specific_vals |-> [i \in 1 .. Len(@.specific_vals) |-> NullPtr]]]
    /\ res' = NoResult
    /\ agg' = InFlight
    /\ reads' = {}
    /\ typeid_T' = NoType
    /\ UNCHANGED <<smp, issued, SEASTAR_DEBUG>>

(***************************************************************************)
(* Typed accessors.                                                        *)
(***************************************************************************)

\* What an evaluation that read a value handle can come to: a pointer, or a
\* fault (the process dies of a memory error); ub marks an evaluation that
\* ran undefined behaviour.
Outcome(ptr, fault, ub) == [ptr |-> ptr, fault |-> fault, ub |-> ub, read |-> TRUE]

\* return nullptr: no value handle was read.
Absent == [ptr |-> NullPtr, fault |-> FALSE, ub |-> FALSE, read |-> FALSE]

\* An indexing that is checked: past the end it yields null.
vector_at_checked(v, idx) ==
    IF idx < Len(v)
    THEN {Outcome(v[idx + 1], FALSE, FALSE)}
    ELSE {Outcome(NullPtr, FALSE, FALSE)}

\* std::vector<void*>::operator[] : unchecked.  Inside the vector it reads the
\* element; past its end the read is undefined: it faults, or yields whatever
\* lies there (a null or some other address).
vector_at(v, idx) ==
    IF idx < Len(v)
    THEN {Outcome(v[idx + 1], FALSE, FALSE)}
    ELSE {Outcome(NullPtr, TRUE, TRUE),
          Outcome(NullPtr, FALSE, TRUE),
          Outcome(WildPtr, FALSE, TRUE)}

\* scheduling_group_get_specific_ptr without the queue_is_initialized test.
get_specific_ptr_ignoring_flag(d, sg, key) ==
    IF scheduling_group_index(sg) < MaxSchedulingGroups
    THEN vector_at(d.per_scheduling_group_data[scheduling_group_index(sg)].specific_vals,
                   scheduling_group_key_id(key))
    ELSE {Absent}

\* scheduling_group_get_specific_ptr indexing the handles by the group instead
\* of by the key.
get_specific_ptr_wrong_index(d, sg, key) ==
    IF scheduling_group_index(sg) < MaxSchedulingGroups
       /\ d.per_scheduling_group_data[scheduling_group_index(sg)].queue_is_initialized
    THEN vector_at(d.per_scheduling_group_data[scheduling_group_index(sg)].specific_vals, 0)
    ELSE {Absent}

\* internal::scheduling_group_get_specific_ptr<T>(sg, key), non-debug build:
\* the set of outcomes of the call on table d.
scheduling_group_get_specific_ptr(d, sg, key) ==
    LET sg_id == scheduling_group_index(sg) IN
    IF sg_id < MaxSchedulingGroups
       /\ d.per_scheduling_group_data[sg_id].queue_is_initialized
    THEN vector_at(d.per_scheduling_group_data[sg_id].specific_vals,
                   scheduling_group_key_id(key))
    ELSE {Absent}

\* GetSpecificPtr building the values of a slot it finds not initialized
\* (an accessor that creates what it is asked for).
GetSpecificPtrCreating(c, sg, key) ==
    /\ Ready
    /\ \E o \in scheduling_group_get_specific_ptr(
                    get_scheduling_group_specific_thread_local_data(c), sg, key) :
        res' = Result("get_specific_ptr", c, sg, key,
                      IF o.fault THEN "segfault" ELSE "ptr", o.ptr, o.ub)
    /\ data' = IF sg \in SchedulingGroups
                  /\ ~data[c].per_scheduling_group_data[sg].queue_is_initialized
               THEN [data EXCEPT ![c].per_scheduling_group_data[sg] =
                        [queue_is_initialized |-> TRUE,
                         specific_vals |-> construct_specific_vals(
                            c, sg, data[c].scheduling_group_key_configs)]]
               ELSE data
    /\ agg' = InFlight
    /\ reads' = {}
    /\ UNCHANGED <<smp, issued>>

\* The slots whose value handle a lookup of (sg, key) on shard c reads.
handles_read(c, sg, key) ==
    {[core |-> c, sg |-> scheduling_group_index(sg)] :
        p \in {q \in scheduling_group_get_specific_ptr(
                        get_scheduling_group_specific_thread_local_data(c), sg, key) :
                    q.read}}

\* The call scheduling_group_get_specific_ptr<T>(sg, key) on shard c, from
\* the lookup of the group on (past the assert of a debug build).
GetSpecificPtr(c, sg, key) ==
    /\ Ready
    /\ \E o \in scheduling_group_get_specific_ptr(
                    get_scheduling_group_specific_thread_local_data(c), sg, key) :
        res' = Result("get_specific_ptr", c, sg, key,
                      IF o.fault THEN "segfault" ELSE "ptr", o.ptr, o.ub)
    /\ agg' = InFlight
    /\ reads' = handles_read(c, sg, key)
    /\ UNCHANGED <<smp, data, issued>>

\* The type registered with key.
registered_type(key) ==
    data[0].scheduling_group_key_configs[scheduling_group_key_id(key) + 1].type_index

\* std::type_index(typeid(T)) == scheduling_group_key_configs[key.id()].type_index
type_index_matches(d, T, key) ==
    T = d.scheduling_group_key_configs[scheduling_group_key_id(key) + 1].type_index

\* assert(...) on the type of T in scheduling_group_get_specific_ptr:
\* compiled in a debug build only.  Whether the call gets past it.
debug_assert(d, T, key) == SEASTAR_DEBUG => type_index_matches(d, T, key)

\* The assert fails: the process aborts inside the call op.
AssertFails(op, c, sg, key) ==
    /\ Ready
    /\ res' = Result(op, c, sg, key, "assert", NullPtr, FALSE)
    /\ agg' = InFlight
    /\ reads' = {}
    /\ UNCHANGED <<smp, data, issued>>

\* scheduling_group_get_specific_ptr<T>(sg, key) on shard c.
GetSpecificPtrT(T, c, sg, key) ==
    /\ typeid_T' = T
    /\ UNCHANGED SEASTAR_DEBUG
    /\ IF debug_assert(get_scheduling_group_specific_thread_local_data(c), T, key)
       THEN GetSpecificPtr(c, sg, key)
       ELSE AssertFails("get_specific_ptr", c, sg, key)

\* scheduling_group_get_specific<T>(sg, key): the outcomes, as
\* [out, ptr, ub] with out one of "ref", "no_such_scheduling_group", "segfault".
Returned(out, ptr, ub) == [out |-> out, ptr |-> ptr, ub |-> ub]

\* scheduling_group_get_specific without the test of the pointer.
get_specific_unchecked(d, sg, key) ==
    UNION {IF p.fault THEN {Returned("segfault", NullPtr, p.ub)}
           ELSE IF p.ptr \in {NullPtr, WildPtr}
                THEN {Returned("segfault", NullPtr, TRUE), Returned("ref", p.ptr, TRUE)}
                ELSE {Returned("ref", p.ptr, p.ub)} :
        p \in scheduling_group_get_specific_ptr(d, sg, key)}

scheduling_group_get_specific(d, sg, key) ==
    {IF p.fault THEN Returned("segfault", NullPtr, p.ub)
     ELSE IF p.ptr = NullPtr
          THEN Returned("no_such_scheduling_group", NullPtr, p.ub)
          ELSE Returned("ref", p.ptr, p.ub) :
        p \in scheduling_group_get_specific_ptr(d, sg, key)}

GetSpecific(c, sg, key) ==
    /\ Ready
    /\ \E r \in scheduling_group_get_specific(
                    get_scheduling_group_specific_thread_local_data(c), sg, key) :
        res' = Result("get_specific", c, sg, key, r.out, r.ptr, r.ub)
    /\ agg' = InFlight
    /\ reads' = handles_read(c, sg, key)
    /\ UNCHANGED <<smp, data, issued>>

\* scheduling_group_get_specific<T>(sg, key) on shard c: it starts with
\* scheduling_group_get_specific_ptr<T>(sg, key).
GetSpecificT(T, c, sg, key) ==
    /\ typeid_T' = T
    /\ UNCHANGED SEASTAR_DEBUG
    /\ IF debug_assert(get_scheduling_group_specific_thread_local_data(c), T, key)
       THEN GetSpecific(c, sg, key)
       ELSE AssertFails("get_specific", c, sg, key)

\* *p for a pointer the code has not checked: through a null (or wild)
\* pointer the dereference is undefined: it faults, or hands out the
\* reference as it is.
deref_unchecked(p) ==
    IF p.fault THEN {Returned("segfault", NullPtr, p.ub)}
    ELSE IF p.ptr \in {NullPtr, WildPtr}
         THEN {Returned("segfault", NullPtr, TRUE), Returned("ref", p.ptr, TRUE)}
         ELSE {Returned("ref", p.ptr, p.ub)}

\* scheduling_group_get_specific<T>(key), with cur = current_scheduling_group().
scheduling_group_get_specific_current(d, cur, key) ==
    UNION {deref_unchecked(p) : p \in scheduling_group_get_specific_ptr(d, cur, key)}

\* The current scheduling group is the scheduler's: any group of the table.
GetSpecificCurrent(c, cur, key) ==
    /\ Ready
    /\ \E r \in scheduling_group_get_specific_current(
                    get_scheduling_group_specific_thread_local_data(c), cur, key) :
        res' = Result("get_specific_current", c, cur, key, r.out, r.ptr, r.ub)
    /\ agg' = InFlight
    /\ reads' = handles_read(c, cur, key)
    /\ UNCHANGED <<smp, data, issued>>

\* scheduling_group_get_specific<T>(key) on shard c: it starts with
\* scheduling_group_get_specific_ptr<T>(current_scheduling_group(), key).
GetSpecificCurrentT(T, c, cur, key) ==
    /\ typeid_T' = T
    /\ UNCHANGED SEASTAR_DEBUG
    /\ IF debug_assert(get_scheduling_group_specific_thread_local_data(c), T, key)
       THEN GetSpecificCurrent(c, cur, key)
       ELSE AssertFails("get_specific_current", c, cur, key)

(***************************************************************************)
(* Aggregation: map_reduce_scheduling_group_specific and                   *)
(* reduce_scheduling_group_specific.                                       *)
(***************************************************************************)

\* The initial accumulators callers pass.
Initials == {<< >>, <<Val("initial", NullPtr)>>}

\* The caller's reducer: order sensitive (it appends).
reducer(acc, x) == Append(acc, x)

\* The caller's mapper, by what it does with the value of each group: it
\* returns a mapped value ("ok"), throws ("throw"), or returns a future it
\* resolves later ("async").
MapperBehaviours == [SchedulingGroups -> {"ok", "throw", "async"}]

\* The behaviours told apart on table d: a mapper acts on values, and a group
\* that is not initialized holds none.
MapperBehavioursOn(d) ==
    {b \in MapperBehaviours :
        \A g \in SchedulingGroups :
            ~d.per_scheduling_group_data[g].queue_is_initialized => b[g] = "ok"}

\* The mapper that returns (a copy of) the value it is given, for every group.
Identity == [g \in SchedulingGroups |-> "identity"]

\* mapper(value): [threw, ret].
mapper(b, ref) ==
    CASE b = "ok"    -> [threw |-> FALSE, ret |-> Val("mapped", ref)]
      [] b = "identity" -> [threw |-> FALSE, ret |-> Val("copy", ref)]
      [] b = "throw" -> [threw |-> TRUE,  ret |-> Val("exception", ref)]
      [] b = "async" -> [threw |-> FALSE, ret |-> Val("future", ref)]

\* A future as the fold sees it: ready with a value, failed with an
\* exception, pending, or the evaluation that was to produce it faulted.
Future(state, val, ub) == [state |-> state, val |-> val, ub |-> ub]

\* make_ready_future<T>(v).
make_ready_future(v, ub) == Future("ready", v, ub)

\* *reinterpret_cast<T*>(handle) as the mapper sees it: the value at the
\* address, or garbage when the reference was made by undefined behaviour.
value_at(r) == IF r.ub THEN WildPtr ELSE r.ptr

\* wrapped_mapper catching what the mapper throws and handing on a ready
\* future all the same.
wrapped_mapper_swallowing(psg, key, b) ==
    {IF r.out = "segfault" THEN Future("segfault", NoVal, TRUE)
     ELSE make_ready_future(mapper(b, value_at(r)).ret, r.ub) :
        r \in UNION {deref_unchecked(p) :
                        p \in vector_at(psg.specific_vals, scheduling_group_key_id(key))}}

\* wrapped_mapper handing on the future the mapper returned instead of
\* wrapping it in a ready one.
wrapped_mapper_unwrapping(psg, key, b) ==
    {IF r.out = "segfault" THEN Future("segfault", NoVal, TRUE)
     ELSE IF mapper(b, value_at(r)).threw
          THEN Future("failed", mapper(b, value_at(r)).ret, r.ub)
          ELSE IF mapper(b, value_at(r)).ret.kind = "future"
               THEN Future("pending", mapper(b, value_at(r)).ret, r.ub)
               ELSE make_ready_future(mapper(b, value_at(r)).ret, r.ub) :
        r \in UNION {deref_unchecked(p) :
                        p \in vector_at(psg.specific_vals, scheduling_group_key_id(key))}}

\* wrapped_mapper reading the handle of the first key whatever the key.
wrapped_mapper_first_key(psg, key, b) ==
    {IF r.out = "segfault" THEN Future("segfault", NoVal, TRUE)
     ELSE IF mapper(b, value_at(r)).threw
          THEN Future("failed", mapper(b, value_at(r)).ret, r.ub)
          ELSE make_ready_future(mapper(b, value_at(r)).ret, r.ub) :
        r \in UNION {deref_unchecked(p) : p \in vector_at(psg.specific_vals, 0)}}

\* The lambda wrapped_mapper of map_reduce_scheduling_group_specific, applied
\* to slot psg: reads the slot's handle for key, applies the caller's mapper
\* to the value behind it and wraps what the mapper returns in a ready future.
\* A mapper that throws makes the call throw.
wrapped_mapper(psg, key, b) ==
    LET id == scheduling_group_key_id(key) IN
    {IF r.out = "segfault" THEN Future("segfault", NoVal, TRUE)
     ELSE IF mapper(b, value_at(r)).threw
          THEN Future("failed", mapper(b, value_at(r)).ret, r.ub)
          ELSE make_ready_future(mapper(b, value_at(r)).ret, r.ub) :
        r \in UNION {deref_unchecked(p) : p \in vector_at(psg.specific_vals, id)}}

\* The lambda of reduce_scheduling_group_specific handing on the handle
\* instead of a copy of the value behind it.
reduce_mapper_handle(psg, key) ==
    {IF r.out = "segfault" THEN Future("segfault", NoVal, TRUE)
     ELSE make_ready_future(Val("handle", value_at(r)), r.ub) :
        r \in UNION {deref_unchecked(p) :
                        p \in vector_at(psg.specific_vals, scheduling_group_key_id(key))}}

\* The lambda of reduce_scheduling_group_specific returning a future that
\* is resolved later (the copy made in a continuation).
reduce_mapper_deferred(psg, key) ==
    {IF r.out = "segfault" THEN Future("segfault", NoVal, TRUE)
     ELSE Future("pending", Val("future", value_at(r)), r.ub) :
        r \in UNION {deref_unchecked(p) :
                        p \in vector_at(psg.specific_vals, scheduling_group_key_id(key))}}

\* The lambda mapper of reduce_scheduling_group_specific: a ready future
\* holding a copy of the slot's value for key.
reduce_mapper(psg, key) ==
    LET id == scheduling_group_key_id(key) IN
    {IF r.out = "segfault" THEN Future("segfault", NoVal, TRUE)
     ELSE make_ready_future(Val("copy", value_at(r)), r.ub) :
        r \in UNION {deref_unchecked(p) : p \in vector_at(psg.specific_vals, id)}}

\* A range that holds every slot of the table, initialized or not.
unfiltered(psg) == TRUE

\* boost::adaptors::filtered(std::mem_fn(&per_scheduling_group::queue_is_initialized)):
\* whether the range passed to map_reduce holds slot psg.
filtered(psg) == psg.queue_is_initialized

\* The mapper the entry point hands to map_reduce, applied to slot i.
invoke_mapper(st, psg) ==
    IF st.op = "reduce"
    THEN reduce_mapper(psg, st.key)
    ELSE wrapped_mapper(psg, st.key, st.behaviour[st.i])

\* The state an aggregation starts in.
StartAgg(op, c, key, initial, behaviour) ==
    [op |-> op, core |-> c, key |-> key, initial |-> initial,
     behaviour |-> behaviour,
     status |-> "running", i |-> 0, acc |-> initial, value |-> NoValue,
     error |-> NoVal, mapped |-> << >>, folded |-> << >>,
     pending |-> {}, waiting |-> -1, waitval |-> NoVal, ub |-> FALSE]

\* One fold step of map_reduce with the intermediate future f of slot st.i:
\* the state after it, and whether the fold goes on.
fold_step(st, f) ==
    LET m == [st EXCEPT !.mapped = Append(@, st.i), !.ub = @ \/ f.ub] IN
    CASE f.state = "ready" ->
            [m EXCEPT !.acc = reducer(@, f.val),
                      !.folded = Append(@, st.i),
                      !.pending = IF f.val.kind = "future" THEN @ \cup {st.i} ELSE @,
                      !.i = @ + 1]
      [] f.state = "failed" ->
            [m EXCEPT !.status = "failed", !.error = f.val]
      [] f.state = "pending" ->
            [m EXCEPT !.status = "suspended", !.waiting = st.i,
                      !.waitval = f.val,
                      !.pending = @ \cup {st.i}]
      [] f.state = "segfault" ->
            [m EXCEPT !.status = "segfault"]

\* map_reduce(range, mapper, initial, reducer) of the future runtime, from
\* slot st.i on: maps and folds the slots of the range in index order, to the
\* end (the result future resolves with the accumulator), to a failure (it
\* fails with that failure; the remaining slots are abandoned) or to an
\* intermediate that is not resolved (the fold suspends).  The outcomes.
RECURSIVE map_reduce(_, _)
map_reduce(d, st) ==
    IF st.status # "running" THEN {st}
    ELSE IF st.i >= MaxSchedulingGroups
    THEN {[st EXCEPT !.status = "resolved", !.value = st.acc]}
    ELSE LET psg == d.per_scheduling_group_data[st.i] IN
         IF ~filtered(psg)
         THEN map_reduce(d, [st EXCEPT !.i = @ + 1])
         ELSE UNION {map_reduce(d, fold_step(st, f)) : f \in invoke_mapper(st, psg)}

\* map_reduce_scheduling_group_specific<T>(mapper, reducer, initial_val, key).
map_reduce_scheduling_group_specific(d, c, behaviour, initial_val, key) ==
    map_reduce(d, StartAgg("map_reduce", c, key, initial_val, behaviour))

\* reduce_scheduling_group_specific<T>(reducer, initial_val, key).
reduce_scheduling_group_specific(d, c, initial_val, key) ==
    map_reduce(d, StartAgg("reduce", c, key, initial_val,
                           [g \in SchedulingGroups |-> "ok"]))

\* The slots whose value handles aggregation st read after the first n
\* mapper calls.
mapped_after(st, n) ==
    {[core |-> st.core, sg |-> st.mapped[i]] : i \in (n + 1) .. Len(st.mapped)}

MapReduce(c, behaviour, initial_val, key) ==
    /\ Ready
    /\ agg.status # "suspended"
    /\ agg' \in map_reduce_scheduling_group_specific(
                    get_scheduling_group_specific_thread_local_data(c),
                    c, behaviour, initial_val, key)
    /\ res' = Result("map_reduce", c, -1, key, "future", NullPtr, agg'.ub)
    /\ reads' = mapped_after(agg', 0)
    /\ UNCHANGED <<smp, data, issued>>

Reduce(c, initial_val, key) ==
    /\ Ready
    /\ agg.status # "suspended"
    /\ agg' \in reduce_scheduling_group_specific(
                    get_scheduling_group_specific_thread_local_data(c),
                    c, initial_val, key)
    /\ res' = Result("reduce", c, -1, key, "future", NullPtr, agg'.ub)
    /\ reads' = mapped_after(agg', 0)
    /\ UNCHANGED <<smp, data, issued>>

\* map_reduce_scheduling_group_specific<T>(mapper, reducer, initial_val, key)
\* on shard c.  The per-slot lambda reads psg.specific_vals[id] itself and
\* casts it to T*: T is compared with nothing, in any build.
MapReduceT(T, c, behaviour, initial_val, key) ==
    /\ typeid_T' = T
    /\ UNCHANGED SEASTAR_DEBUG
    /\ MapReduce(c, behaviour, initial_val, key)

\* reduce_scheduling_group_specific<T>(reducer, initial_val, key) on shard c.
ReduceT(T, c, initial_val, key) ==
    /\ typeid_T' = T
    /\ UNCHANGED SEASTAR_DEBUG
    /\ Reduce(c, initial_val, key)

\* A future returned by the caller's asynchronous mapper resolves, with a
\* value or with a failure.  A fold suspended on it resumes there.
resolve(d, st, g, ok) ==
    IF st.status = "suspended" /\ st.waiting = g
    THEN IF ok
         THEN map_reduce(d, [st EXCEPT
                    !.status = "running", !.waiting = -1,
                    !.pending = @ \ {g},
                    !.waitval = NoVal,
                    !.acc = reducer(@, Val("mapped", st.waitval.of)),
                    !.folded = Append(@, g),
                    !.i = @ + 1])
         ELSE {[st EXCEPT !.status = "failed", !.waiting = -1,
                          !.waitval = NoVal,
                          !.pending = @ \ {g},
                          !.error = Val("exception", NullPtr)]}
    ELSE {[st EXCEPT !.pending = @ \ {g}]}

ResolveMapperFuture(g, ok) ==
    /\ Alive
    /\ g \in agg.pending
    /\ agg' \in resolve(get_scheduling_group_specific_thread_local_data(agg.core),
                        agg, g, ok)
    /\ reads' = mapped_after(agg', Len(agg.mapped))
    /\ UNCHANGED <<smp, data, issued, res, SEASTAR_DEBUG, typeid_T>>

\* The caller takes the result of its call; the shard goes on to its next task.
Return ==
    /\ Alive
    /\ res.op \in CallOps
    /\ res' = NoResult
    /\ agg' = InFlight
    /\ reads' = {}
    /\ typeid_T' = NoType
    /\ UNCHANGED <<smp, data, issued, SEASTAR_DEBUG>>

(***************************************************************************)
(* The system.                                                             *)
(***************************************************************************)

\* Callers name the type each key was registered with (getting T right is
\* the caller's contract) and use the keys every initialized slot holds a
\* handle for.
Next ==
    \/ RegisterKey
    \/ \E c \in Cores, g \in SchedulingGroups : InitSchedulingGroup(c, g)
    \/ \E c \in Cores, g \in SchedulingGroups : DestroySchedulingGroup(c, g)
    \/ \E c \in Cores, sg \in SchedulingGroupArgs, key \in UsableKeys :
            GetSpecificPtrT(registered_type(key), c, sg, key)
    \/ \E c \in Cores, sg \in SchedulingGroupArgs, key \in UsableKeys :
            GetSpecificT(registered_type(key), c, sg, key)
    \/ \E c \in Cores, cur \in SchedulingGroups, key \in UsableKeys :
            GetSpecificCurrentT(registered_type(key), c, cur, key)
    \/ \E c \in Cores, initial \in Initials, key \in UsableKeys :
       \E b \in MapperBehavioursOn(data[c]) :
            MapReduceT(registered_type(key), c, b, initial, key)
    \/ \E c \in Cores, initial \in Initials, key \in UsableKeys :
            MapReduceT(registered_type(key), c, Identity, initial, key)
    \/ \E c \in Cores, initial \in Initials, key \in UsableKeys :
            ReduceT(registered_type(key), c, initial, key)
    \/ \E g \in SchedulingGroups, ok \in BOOLEAN : ResolveMapperFuture(g, ok)
    \/ Return

Spec == Init /\ [][Next]_vars

(***************************************************************************)
(* Two shards.  The keys are registered during start-up, before the shards *)
(* create their scheduling groups; from then on each shard creates and     *)
(* destroys groups and calls the accessors and aggregations on its own.    *)
(***************************************************************************)
Shards == 2

InitSmp ==
    /\ smp = Shards
    /\ issued = [i \in 1 .. MaxKeys |-> i - 1]
    /\ data = [c \in 0 .. (Shards - 1) |->
            [scheduling_group_specific_thread_local_data EXCEPT
                !.scheduling_group_key_configs =
                    [i \in 1 .. MaxKeys |-> scheduling_group_key_config(i - 1)]]]
    /\ res = NoResult
    /\ agg = IdleAgg
    /\ reads = {}
    /\ SEASTAR_DEBUG = FALSE
    /\ typeid_T = NoType

NextSmp ==
    \/ \E c \in Cores, g \in SchedulingGroups : InitSchedulingGroup(c, g)
    \/ \E c \in Cores, g \in SchedulingGroups : DestroySchedulingGroup(c, g)
    \/ \E c \in Cores, sg \in SchedulingGroupArgs, key \in UsableKeys :
            GetSpecificPtrT(registered_type(key), c, sg, key)
    \/ \E c \in Cores, initial \in Initials, key \in UsableKeys :
            ReduceT(registered_type(key), c, initial, key)
    \/ Return

SpecSmp == InitSmp /\ [][NextSmp]_vars

(***************************************************************************)
(* Callers that use a key as soon as its registration has returned it,     *)
(* whether or not the slots initialized before hold a handle for it.       *)
(***************************************************************************)

\* A mapper that maps every value.
MapsAll == [g \in SchedulingGroups |-> "ok"]

NextAnyKey ==
    \/ RegisterKey
    \/ \E c \in Cores, g \in SchedulingGroups : InitSchedulingGroup(c, g)
    \/ \E c \in Cores, g \in SchedulingGroups : DestroySchedulingGroup(c, g)
    \/ \E c \in Cores, sg \in SchedulingGroupArgs, key \in Keys :
            GetSpecificPtrT(registered_type(key), c, sg, key)
    \/ \E c \in Cores, sg \in SchedulingGroupArgs, key \in Keys :
            GetSpecificT(registered_type(key), c, sg, key)
    \/ \E c \in Cores, initial \in Initials, key \in Keys :
            MapReduceT(registered_type(key), c, MapsAll, initial, key)
    \/ \E c \in Cores, initial \in Initials, key \in Keys :
            ReduceT(registered_type(key), c, initial, key)
    \/ Return

SpecAnyKey == Init /\ [][NextAnyKey]_vars

(***************************************************************************)
(* A debug build (SEASTAR_DEBUG defined) whose callers name any type.      *)
(***************************************************************************)
InitDebug ==
    /\ smp = 1
    /\ data = [c \in Cores |-> scheduling_group_specific_thread_local_data]
    /\ issued = << >>
    /\ res = NoResult
    /\ agg = IdleAgg
    /\ reads = {}
    /\ SEASTAR_DEBUG = TRUE
    /\ typeid_T = NoType

NextDebug ==
    \/ RegisterKey
    \/ \E c \in Cores, g \in SchedulingGroups : InitSchedulingGroup(c, g)
    \/ \E c \in Cores, g \in SchedulingGroups : DestroySchedulingGroup(c, g)
    \/ \E T \in Types, c \in Cores, sg \in SchedulingGroupArgs, key \in UsableKeys :
            GetSpecificPtrT(T, c, sg, key)
    \/ \E T \in Types, c \in Cores, sg \in SchedulingGroupArgs, key \in UsableKeys :
            GetSpecificT(T, c, sg, key)
    \/ \E T \in Types, c \in Cores, cur \in SchedulingGroups, key \in UsableKeys :
            GetSpecificCurrentT(T, c, cur, key)
    \/ \E T \in Types, c \in Cores, initial \in Initials, key \in UsableKeys :
       \E b \in MapperBehavioursOn(data[c]) :
            MapReduceT(T, c, b, initial, key)
    \/ \E T \in Types, c \in Cores, initial \in Initials, key \in UsableKeys :
            ReduceT(T, c, initial, key)
    \/ \E g \in SchedulingGroups, ok \in BOOLEAN : ResolveMapperFuture(g, ok)
    \/ Return

SpecDebug == InitDebug /\ [][NextDebug]_vars

(***************************************************************************)
(* Properties.                                                             *)
(***************************************************************************)

\* Whether sg names a slot of shard c that is initialized.
IsInitialized(c, sg) ==
    sg \in SchedulingGroups /\ Slot(c, sg).queue_is_initialized

\* Outcomes that end the process.
Fatal(out) == out \in {"no_such_scheduling_group", "segfault"}

\* C1: get_specific_ptr(g, key) returns absent exactly when slot g is not
\* initialized on the shard; a group index outside the table has no slot and
\* yields absent, not a fault.
ClaimC1 ==
    res.op = "get_specific_ptr" =>
        /\ res.out = "ptr"
        /\ res.ptr = NullPtr <=> ~IsInitialized(res.core, res.sg)

\* An out-of-range group was looked up while other slots were initialized.
WitnessC1 ==
    /\ res.op = "get_specific_ptr"
    /\ res.sg = MaxSchedulingGroups
    /\ res.out = "ptr" /\ res.ptr = NullPtr
    /\ \E g \in SchedulingGroups : IsInitialized(res.core, g)
    /\ \E g \in SchedulingGroups :
            ~IsInitialized(res.core, g) /\ Len(Slot(res.core, g).specific_vals) > 0

\* C2: get_specific(g, key) ends in "no such scheduling group" exactly when
\* get_specific_ptr(g, key) is absent, and otherwise returns the referent
\* get_specific_ptr(g, key) returns.
ClaimC2 ==
    res.op = "get_specific" =>
        \E p \in scheduling_group_get_specific_ptr(data[res.core], res.sg, res.key) :
            /\ ~p.fault
            /\ (res.out = "no_such_scheduling_group") <=> (p.ptr = NullPtr)
            /\ p.ptr # NullPtr => res.out = "ref" /\ res.ptr = p.ptr

\* The must-exist accessor was called for a slot that was torn down.
WitnessC2 ==
    /\ res.op = "get_specific"
    /\ res.out = "no_such_scheduling_group"
    /\ res.sg \in SchedulingGroups
    /\ Len(Slot(res.core, res.sg).specific_vals) > 0

\* C3: get_specific(key) behaves as get_specific(current_scheduling_group(),
\* key): the same referent when the current group's slot is initialized, a
\* fatal outcome when it is not.
ClaimC3 ==
    res.op = "get_specific_current" =>
        IF IsInitialized(res.core, res.sg)
        THEN res.out = "ref"
             /\ \E r \in scheduling_group_get_specific(data[res.core], res.sg, res.key) :
                    r.out = "ref" /\ r.ptr = res.ptr
        ELSE Fatal(res.out)

\* The aggregation call that has not returned yet.
Aggregating == agg.op \in {"reduce", "map_reduce"}

\* The initialized groups of shard c below index n, in ascending order.
RECURSIVE InitializedBelow(_, _)
InitializedBelow(c, n) ==
    IF n = 0 THEN << >>
    ELSE IF Slot(c, n - 1).queue_is_initialized
         THEN Append(InitializedBelow(c, n - 1), n - 1)
         ELSE InitializedBelow(c, n - 1)

\* The handle slot g of shard c holds for key.
HandleOf(c, g, key) == Slot(c, g).specific_vals[key.id + 1]

\* What the aggregation a folds for group g: the value itself (reduce) or
\* what the mapper returns for it.
IntermediateOf(a, g) ==
    Val(IF a.op = "reduce" \/ a.behaviour[g] = "identity" THEN "copy"
        ELSE IF a.behaviour[g] = "async" THEN "future" ELSE "mapped",
        HandleOf(a.core, g, a.key))

\* reducer folded from the left over the intermediates of the groups gs.
RECURSIVE LeftFold(_, _, _)
LeftFold(a, acc, gs) ==
    IF gs = << >> THEN acc
    ELSE LeftFold(a, reducer(acc, IntermediateOf(a, Head(gs))), Tail(gs))

\* The initialized groups for whose value the mapper of aggregation a throws.
Throwing(a) ==
    {g \in SchedulingGroups :
        a.op = "map_reduce" /\ IsInitialized(a.core, g) /\ a.behaviour[g] = "throw"}

\* The lowest group of a non-empty set.
Lowest(S) == CHOOSE g \in S : \A h \in S : g <= h

\* C4: reduce and map_reduce resolve to the left fold of reducer over
\* mapper(value) of exactly the initialized slots, in ascending group index
\* order from initial; uninitialized slots are skipped.
ClaimC4 ==
    Aggregating /\ Throwing(agg) = {} =>
        /\ agg.status = "resolved"
        /\ agg.value = LeftFold(agg, agg.initial,
                                InitializedBelow(agg.core, MaxSchedulingGroups))
        /\ agg.folded = InitializedBelow(agg.core, MaxSchedulingGroups)

\* A map_reduce over the second key folded groups 0 and 2 and skipped group
\* 1, which lies between them and is not initialized.
WitnessC4 ==
    /\ agg.op = "map_reduce" /\ agg.status = "resolved"
    /\ agg.key.id = 1
    /\ agg.folded = <<0, 2>>
    /\ Len(agg.value) = Len(agg.initial) + 2

ClaimC6 ==
    Aggregating /\ Throwing(agg) # {} =>
        agg.folded = InitializedBelow(agg.core, Lowest(Throwing(agg)))

\* Slots 0, 1 and 2 are initialized, the mapper failed on slot 1: the
\* reducer ran once, for slot 0.
WitnessC6 ==
    /\ agg.op = "map_reduce" /\ agg.status = "failed"
    /\ \A g \in 0 .. 2 : IsInitialized(agg.core, g)
    /\ Throwing(agg) = {1}
    /\ agg.behaviour[2] = "ok"
    /\ agg.folded = <<0>>

\* Whether the sequence of group indexes s ascends.
Ascending(s) == \A i, j \in 1 .. Len(s) : i < j => s[i] < s[j]

\* The initialized groups for whose value the mapper returns a future.
Asynchronous(a) ==
    {g \in SchedulingGroups :
        a.op = "map_reduce" /\ IsInitialized(a.core, g) /\ a.behaviour[g] = "async"}

ClaimC8 ==
    Aggregating /\ InitializedBelow(agg.core, MaxSchedulingGroups) = << >> =>
        /\ agg.status = "resolved"
        /\ agg.value = agg.initial
        /\ agg.mapped = << >>
        /\ agg.folded = << >>

\* A reduce with a non-empty initial on a shard whose slots are all torn
\* down or never initialized.
WitnessC8 ==
    /\ agg.op = "reduce" /\ agg.status = "resolved"
    /\ agg.initial # << >>
    /\ InitializedBelow(agg.core, MaxSchedulingGroups) = << >>
    /\ \E g \in SchedulingGroups : Len(Slot(agg.core, g).specific_vals) > 0

\* C9: on an initialized slot g, get_specific_ptr(g, k) is present for every
\* key k the slot was initialized with, and refers to the value built by k's
\* own constructor for group g of this shard.
ClaimC9 ==
    res.op = "get_specific_ptr" /\ IsInitialized(res.core, res.sg) =>
        /\ res.out = "ptr"
        /\ res.ptr # NullPtr
        /\ res.ptr = Alloc(res.core, res.sg,
                data[res.core].scheduling_group_key_configs[res.key.id + 1])

\* The second key was looked up on a slot other than slot 0.
WitnessC9 ==
    /\ res.op = "get_specific_ptr" /\ res.out = "ptr"
    /\ res.key.id = 1 /\ res.sg = 2
    /\ res.ptr.ctor = 1 /\ res.ptr.sg = 2
    /\ IsInitialized(res.core, 0)

\* C10: the key ids issued by N registrations are 0 .. N-1 in registration
\* order, each the index of the KeyConfig its registration appended.
ClaimC10 ==
    /\ \A i \in 1 .. Len(issued) : issued[i] = i - 1
    /\ \A c \in Cores :
        /\ Len(data[c].scheduling_group_key_configs) = Len(issued)
        /\ \A i \in 1 .. Len(issued) :
            data[c].scheduling_group_key_configs[issued[i] + 1] =
                scheduling_group_key_config(issued[i])

\* Two keys have been registered.
WitnessC10 ==
    /\ Len(issued) >= 2
    /\ issued[Len(issued)] = issued[Len(issued) - 1] + 1

\* C11: get_specific_ptr, both forms of get_specific, reduce and map_reduce
\* (and the steps of an aggregation) leave every slot's initialized flag and
\* handle sequence and the key-config sequence as they were; a step that
\* changes a slot is a slot initialization or teardown, never part of a call.
ClaimC11 ==
    [][/\ res'.op \in CallOps => data' = data /\ issued' = issued
       /\ (\E c \in Cores :
                data'[c].per_scheduling_group_data # data[c].per_scheduling_group_data)
            => res.op \notin CallOps /\ res'.op \notin CallOps]_vars

\* A reduce has folded two slots of a shard that also has a torn-down slot,
\* and the slots it read still hold their handles.
WitnessC11 ==
    /\ res.op = "reduce" /\ agg.status = "resolved"
    /\ Len(agg.folded) >= 2
    /\ \A i \in 1 .. Len(agg.folded) :
            /\ IsInitialized(agg.core, agg.folded[i])
            /\ HandleOf(agg.core, agg.folded[i], agg.key) # NullPtr
    /\ \E g \in SchedulingGroups :
            ~IsInitialized(agg.core, g) /\ Len(Slot(agg.core, g).specific_vals) > 0

\* Mappers that treat every group's value alike.
UniformBehaviours == {[g \in SchedulingGroups |-> m] : m \in {"ok", "throw", "async"}}

\* What every accessor and aggregation call returns on shard c, by its
\* arguments.
ResultsOn(c) ==
    LET d == get_scheduling_group_specific_thread_local_data(c) IN
    [ptr |-> [sg \in SchedulingGroupArgs, key \in Keys |->
                scheduling_group_get_specific_ptr(d, sg, key)],
     get |-> [sg \in SchedulingGroupArgs, key \in Keys |->
                scheduling_group_get_specific(d, sg, key)],
     cur |-> [sg \in SchedulingGroups, key \in Keys |->
                scheduling_group_get_specific_current(d, sg, key)],
     reduce |-> [key \in Keys |->
                reduce_scheduling_group_specific(d, c, << >>, key)],
     map_reduce |-> [b \in UniformBehaviours, key \in Keys |->
                map_reduce_scheduling_group_specific(d, c, b, << >>, key)]]

\* C12: each shard has its own table: a slot initialization or teardown on
\* one shard leaves what get_specific_ptr, get_specific, reduce and
\* map_reduce return on every other shard as it was.
ClaimC12 ==
    [][\A c \in Cores :
        data'[c].per_scheduling_group_data # data[c].per_scheduling_group_data =>
            \A other \in Cores \ {c} : ResultsOn(other)' = ResultsOn(other)]_vars

\* Group 1 is initialized on shard 0 and torn down on shard 1, and shard 0
\* has just read its handle for the group.
WitnessC12 ==
    /\ smp = Shards
    /\ IsInitialized(0, 1) /\ ~IsInitialized(1, 1)
    /\ Len(Slot(1, 1).specific_vals) > 0
    /\ res.op = "get_specific_ptr" /\ res.core = 0 /\ res.sg = 1
    /\ res.ptr = HandleOf(0, 1, res.key)

\* C13: whatever the order of slot initializations, teardowns, accessor
\* calls and aggregations on a shard, a value handle is read only from a
\* slot whose initialized flag is set at the moment of the read.
ClaimC13 ==
    \A r \in reads : IsInitialized(r.core, r.sg)

\* A map_reduce read the handles of slots 0 and 2 and none of slot 1, which
\* was torn down before the call and still holds its (destroyed) handles.
WitnessC13 ==
    /\ res.op = "map_reduce"
    /\ reads = {[core |-> res.core, sg |-> 0], [core |-> res.core, sg |-> 2]}
    /\ ~IsInitialized(res.core, 1)
    /\ Len(Slot(res.core, 1).specific_vals) > 0

\* Whether the call in res, reading slot r, indexes inside the slot's handle
\* sequence.
IndexesInside(r) == res.key.id < Len(Slot(r.core, r.sg).specific_vals)

ClaimC15 ==
    SEASTAR_DEBUG /\ res.op \in CallOps =>
        (res.out = "assert") <=> (typeid_T # registered_type(res.key))

\* What an aggregation did, whichever entry point it was started through:
\* the slots visited, the reducer's arguments, the result or the failure.
Observable(a) == [a EXCEPT !.op = "aggregation", !.behaviour = Identity]

\* C16: reduce(reducer, initial, key) is map_reduce(identity, reducer,
\* initial, key): on every table both visit the same slots in the same
\* order, hand the reducer the same arguments and end in the same result or
\* failure.
ClaimC16 ==
    /\ agg.op = "reduce" =>
            Observable(agg) \in
                {Observable(a) : a \in map_reduce_scheduling_group_specific(
                    data[agg.core], agg.core, Identity, agg.initial, agg.key)}
    /\ agg.op = "map_reduce" /\ agg.behaviour = Identity =>
            Observable(agg) \in
                {Observable(a) : a \in reduce_scheduling_group_specific(
                    data[agg.core], agg.core, agg.initial, agg.key)}

\* A map_reduce with the identity mapper folded slots 0 and 2 over the
\* second key from a non-empty initial, slot 1 being torn down.
WitnessC16 ==
    /\ agg.op = "map_reduce" /\ agg.behaviour = Identity
    /\ agg.status = "resolved"
    /\ agg.key.id = 1 /\ agg.initial # << >>
    /\ agg.folded = <<0, 2>>
    /\ Len(Slot(agg.core, 1).specific_vals) > 0

\* What a caller's mapper can do with one value.
MapperActs == {"ok", "throw", "async", "identity"}

\* C17: in reduce and map_reduce the per-slot mapping step never suspends:
\* for every initialized slot the lambda hands the fold a future that is
\* already resolved (or the mapper's exception, thrown in the same step), so
\* every slot whose handle was read has its intermediate, and the fold is
\* over, before any slot initialization or teardown can run.
ClaimC17 ==
    /\ \A c \in Cores, g \in SchedulingGroups, key \in UsableKeys :
            IsInitialized(c, g) =>
                /\ \A f \in reduce_mapper(Slot(c, g), key) : f.state = "ready"
                /\ \A b \in MapperActs :
                        \A f \in wrapped_mapper(Slot(c, g), key, b) :
                            f.state = IF b = "throw" THEN "failed" ELSE "ready"
    /\ Aggregating =>
            /\ agg.status \notin {"running", "suspended"}
            /\ agg.waiting = -1
            /\ Len(agg.mapped) =
                    Len(agg.folded) + (IF agg.status = "failed" THEN 1 ELSE 0)

\* A map_reduce that has not returned yet: the mapper returned a future for
\* slot 1, still unresolved, and a value for slot 2; both slots are folded.
WitnessC17 ==
    /\ res.op = "map_reduce" /\ agg.status = "resolved"
    /\ agg.behaviour[1] = "async" /\ agg.behaviour[2] = "ok"
    /\ agg.mapped = <<1, 2>> /\ agg.folded = <<1, 2>>
    /\ agg.pending = {1}
    /\ reads = {[core |-> agg.core, sg |-> 1], [core |-> agg.core, sg |-> 2]}

====
